---- MODULE Spec2Model ----
(***************************************************************************)
(* A model of tiktok_export.py: the string helpers (sanitize,              *)
(* extract_hashtags), the flat-file CSV store (generate_csv,               *)
(* load_existing_csv, update_csv_row), the text sidecar (update_txt) and   *)
(* the run main() makes: input, download, post-processing, CSV generation. *)
(*                                                                         *)
(* Text is a sequence of characters; a character is a one-character        *)
(* string.  A file's content is a record, the export directory a function  *)
(* from <<folder name, file name>> to content.                             *)
(***************************************************************************)
EXTENDS Integers, Sequences, FiniteSets, TLC

VARIABLES
    pc,        \* where main() (or the function under study) stands
    arg,       \* the argument of the function under study
    ret,       \* what the function under study returned
    fs,        \* the files below the export directory: <<folder, name>> -> content
    csv,       \* tiktok_export.csv: [exists, text]
    feed,      \* the profile's videos, newest first (the downloader's view)
    run,       \* number of runs of main() started so far
    sel,       \* what the user typed in this run: username, option, count, dates
    err,       \* the exception that ended the run, "" when none
    snap,      \* what the run found when it started: [fs, csv, written]
    dl,        \* the files as the downloader left them in this run
    log,       \* what post_process_videos did in this run, per sidecar it handled
    written    \* the metadata generate_csv last turned into rows, one entry per row

vars == <<pc, arg, ret, fs, csv, feed, run, sel, err, snap, dl, log, written>>

(***************************************************************************)
(* Bounds of the model.                                                    *)
(***************************************************************************)
MaxLen == 3        \* longest text handed to sanitize
MaxDescLen == 5    \* longest description handed to extract_hashtags
MaxTitleLen == 2   \* longest title in the CSV round trip
MaxItems == 2      \* most items in the CSV round trip
MaxFeed == 2       \* most videos on the profile
MaxRuns == 2       \* most runs of main() on the same export directory

(***************************************************************************)
(* Python's str helpers, on sequences of characters.                       *)
(***************************************************************************)
\* str.isspace() characters (those the model's alphabets contain)
Whitespace == {" ", "\t", "\n", "\r"}

\* str.splitlines() line boundaries (those the model's alphabets contain)
LineBreaks == {"\n", "\r"}

Digits == {"0", "1", "2", "3", "4", "5", "6", "7", "8", "9"}

\* \w of a str pattern: letters, digits, underscore
WordChars == {"a", "b", "c", "x", "_"} \cup Digits

RECURSIVE lstripChars(_, _)
lstripChars(s, chars) ==
    IF s # <<>> /\ Head(s) \in chars THEN lstripChars(Tail(s), chars) ELSE s

RECURSIVE rstripChars(_, _)
rstripChars(s, chars) ==
    IF s # <<>> /\ s[Len(s)] \in chars
    THEN rstripChars(SubSeq(s, 1, Len(s) - 1), chars)
    ELSE s

\* str.strip(chars)
stripChars(s, chars) == rstripChars(lstripChars(s, chars), chars)

\* str.strip()
strip(s) == stripChars(s, Whitespace)

\* s[:n]
Prefix(s, n) == SubSeq(s, 1, IF Len(s) < n THEN Len(s) ELSE n)

\* s.startswith(p)
startswith(s, p) == Len(p) <= Len(s) /\ SubSeq(s, 1, Len(p)) = p

\* s.endswith(p)
endswith(s, p) == Len(p) <= Len(s) /\ SubSeq(s, Len(s) - Len(p) + 1, Len(s)) = p

\* sep.join(parts)
RECURSIVE join(_, _)
join(sep, parts) ==
    IF parts = <<>> THEN <<>>
    ELSE IF Len(parts) = 1 THEN parts[1]
    ELSE parts[1] \o sep \o join(sep, Tail(parts))

\* the k-th smallest member of a set of positions
Kth(P, k) == CHOOSE i \in P : Cardinality({j \in P : j < i}) = k - 1

\* s.split(sep) for a one-character separator: the pieces between the
\* separators, empty ones kept (never an empty list)
split(s, sep) ==
    LET P == {i \in 1 .. Len(s) : s[i] = sep}
        n == Cardinality(P)
    IN  [k \in 1 .. n + 1 |->
            SubSeq(s, IF k = 1 THEN 1 ELSE Kth(P, k - 1) + 1,
                      IF k = n + 1 THEN Len(s) ELSE Kth(P, k) - 1)]

\* s.splitlines(): the pieces between the line boundaries; a "\r\n" pair is
\* one boundary, and no empty last line follows a final boundary
splitlines(s) ==
    LET B == {i \in 1 .. Len(s) :
                s[i] \in LineBreaks /\ ~(s[i] = "\n" /\ i > 1 /\ s[i - 1] = "\r")}
        n == Cardinality(B)
        after(b) == IF s[b] = "\r" /\ b < Len(s) /\ s[b + 1] = "\n" THEN b + 2 ELSE b + 1
        lo(k) == IF k = 1 THEN 1 ELSE after(Kth(B, k - 1))
        hi(k) == IF k = n + 1 THEN Len(s) ELSE Kth(B, k) - 1
    IN  [k \in 1 .. (IF lo(n + 1) <= Len(s) THEN n + 1 ELSE n) |-> SubSeq(s, lo(k), hi(k))]

\* str(n) for a natural number
DigitOf(d) == CASE d = 0 -> "0" [] d = 1 -> "1" [] d = 2 -> "2" [] d = 3 -> "3"
                [] d = 4 -> "4" [] d = 5 -> "5" [] d = 6 -> "6" [] d = 7 -> "7"
                [] d = 8 -> "8" [] d = 9 -> "9"

RECURSIVE str(_)
str(n) == IF n < 10 THEN <<DigitOf(n)>> ELSE str(n \div 10) \o <<DigitOf(n % 10)>>

(***************************************************************************)
(* sanitize (lines 57-59)                                                  *)
(***************************************************************************)
\* the characters of r'\/:*?"<>|'
InvalidChars == {"\\", "/", ":", "*", "?", "\"", "<", ">", "|"}

\* "".join(c for c in text if c not in r'\/:*?"<>|')
RECURSIVE dropInvalid(_)
dropInvalid(text) ==
    IF text = <<>> THEN <<>>
    ELSE IF Head(text) \in InvalidChars THEN dropInvalid(Tail(text))
    ELSE <<Head(text)>> \o dropInvalid(Tail(text))

\* a slip: the result is not stripped
sanitizeNoStrip(text) == dropInvalid(text)

sanitize(text) == strip(dropInvalid(text))

(***************************************************************************)
(* extract_hashtags (lines 61-63)                                          *)
(***************************************************************************)
NoHashtags == <<"(", "N", "o", " ", "h", "a", "s", "h", "t", "a", "g", "s", ")">>

\* the end of the longest run of word characters of s starting at position i
\* (i - 1 when s[i] is no word character)
RECURSIVE wordEnd(_, _)
wordEnd(s, i) ==
    IF i <= Len(s) /\ s[i] \in WordChars THEN wordEnd(s, i + 1) ELSE i - 1

\* re.findall(r"#\w+", s): scan from the left; a match is consumed whole
RECURSIVE findallFrom(_, _)
findallFrom(s, pos) ==
    IF pos > Len(s) THEN <<>>
    ELSE IF s[pos] = "#" /\ wordEnd(s, pos + 1) > pos
         THEN <<SubSeq(s, pos, wordEnd(s, pos + 1))>>
              \o findallFrom(s, wordEnd(s, pos + 1) + 1)
    ELSE findallFrom(s, pos + 1)

findall_hashtag(s) == findallFrom(s, 1)

extract_hashtags(description) ==
    IF description # <<>>
    THEN join(<<" ">>, findall_hashtag(description))
    ELSE NoHashtags

(***************************************************************************)
(* Metadata sidecars, files and paths.                                     *)
(***************************************************************************)
\* the object json.load returns for a sidecar the downloader wrote; id is the
\* video's identity on the platform (webpage_url is its text)
Meta(id, title, description, upload_date, stats, url) ==
    [id |-> id, title |-> title, description |-> description,
     upload_date |-> upload_date, view_count |-> stats[1],
     like_count |-> stats[2], comment_count |-> stats[3], webpage_url |-> url]

\* file contents: a video, a metadata sidecar (ok: json.load can parse it),
\* a text sidecar
VideoFile(id) == [kind |-> "video", id |-> id]
JsonFile(ok, data) == [kind |-> "json", ok |-> ok, data |-> data]
TxtFile(text) == [kind |-> "txt", text |-> text]

DotJson == <<".", "j", "s", "o", "n">>
DotMp4 == <<".", "m", "p", "4">>
DotTxt == <<".", "t", "x", "t">>

\* the position of the last "." of name, 0 when there is none
RECURSIVE rfindDot(_, _)
rfindDot(name, i) ==
    IF i = 0 THEN 0 ELSE IF name[i] = "." THEN i ELSE rfindDot(name, i - 1)

\* pathlib's Path.suffix: from the last dot, unless it leads or ends the name
suffix(name) ==
    LET i == rfindDot(name, Len(name))
    IN  IF 1 < i /\ i < Len(name) THEN SubSeq(name, i, Len(name)) ELSE <<>>

\* the files of a folder, as paths
FilesIn(files, dir) == {p \in DOMAIN files : p[1] = dir}

\* files with path p set to content
With(files, p, content) ==
    [q \in DOMAIN files \cup {p} |-> IF q = p THEN content ELSE files[q]]

\* the orders in which a directory listing may yield the entries S
Orders(S) ==
    {o \in [1 .. Cardinality(S) -> S] :
        \A i, j \in 1 .. Cardinality(S) : o[i] = o[j] => i = j}

(***************************************************************************)
(* Dates.                                                                  *)
(***************************************************************************)
\* datetime.strptime(d, "%Y%m%d").strftime("%Y-%m-%d") for a well-formed
\* eight-digit date (the only non-empty upload dates the model holds)
format_upload_date(d) ==
    SubSeq(d, 1, 4) \o <<"-">> \o SubSeq(d, 5, 6) \o <<"-">> \o SubSeq(d, 7, 8)

(***************************************************************************)
(* generate_csv (lines 234-266)                                            *)
(***************************************************************************)
CsvHeader ==
    <<"N", "a", "m", "e", ",", "R", "e", "l", "e", "a", "s", "e", " ", "d",
      "a", "t", "e", ",", "D", "o", "w", "n", "l", "o", "a", "d", " ", "d",
      "a", "t", "e", ",", "D", "e", "s", "c", "r", "i", "p", "t", "i", "o",
      "n", ",", "V", "i", "d", "e", "o", " ", "U", "R", "L", ",", "V", "i",
      "e", "w", "s", ",", "L", "i", "k", "e", "s", ",", "C", "o", "m", "m",
      "e", "n", "t", "s">>

\* s.replace('"', '""')
RECURSIVE double_quotes(_)
double_quotes(s) ==
    IF s = <<>> THEN <<>>
    ELSE IF Head(s) = "\"" THEN <<"\"", "\"">> \o double_quotes(Tail(s))
    ELSE <<Head(s)>> \o double_quotes(Tail(s))

\* the eight fields of line 263, as written
csv_fields(data, download_date) ==
    << <<"\"">> \o double_quotes(data.title) \o <<"\"">>,
       IF data.upload_date # <<>> THEN format_upload_date(data.upload_date) ELSE <<>>,
       download_date,
       <<"\"">> \o double_quotes(data.description) \o <<"\"">>,
       <<"\"">> \o data.webpage_url \o <<"\"">>,
       str(data.view_count), str(data.like_count), str(data.comment_count) >>

csv_row(data, download_date) == join(<<",">>, csv_fields(data, download_date))

\* the metadata files generate_csv reads: every *.json of every folder
csv_sources(files) == {p \in DOMAIN files : endswith(p[2], DotJson)}

\* the sidecars generate_csv turns into rows, in listing order `order`
\* (a sidecar json.load cannot parse is passed over, lines 246-250)
RECURSIVE csv_row_data(_, _)
csv_row_data(files, order) ==
    IF order = <<>> THEN <<>>
    ELSE (IF files[Head(order)].ok THEN <<files[Head(order)].data>> ELSE <<>>)
         \o csv_row_data(files, Tail(order))

RECURSIVE csv_rows(_, _)
csv_rows(datas, download_date) ==
    IF datas = <<>> THEN <<>>
    ELSE <<csv_row(Head(datas), download_date)>> \o csv_rows(Tail(datas), download_date)

\* the table generate_csv writes
generate_csv(files, order, download_date) ==
    [exists |-> TRUE,
     text |-> join(<<"\n">>, <<CsvHeader>> \o csv_rows(csv_row_data(files, order), download_date))]

(***************************************************************************)
(* load_existing_csv (lines 67-77)                                         *)
(***************************************************************************)
\* for line in lines: existing[parts[0].strip('"')] = parts  (a later line
\* with the same key replaces an earlier one)
RECURSIVE load_lines(_, _)
load_lines(lines, existing) ==
    IF lines = <<>> THEN existing
    ELSE LET parts == split(Head(lines), ",")
             key == stripChars(parts[1], {"\""})
         IN  load_lines(Tail(lines),
                        [k \in DOMAIN existing \cup {key} |->
                            IF k = key THEN parts ELSE existing[k]])

\* lines[1:]
Rest(lines) == IF lines = <<>> THEN <<>> ELSE Tail(lines)

load_existing_csv(table) ==
    IF table.exists
    THEN load_lines(Rest(splitlines(table.text)), <<>>)
    ELSE <<>>

\* `full_title in existing_episodes` (line 187)
in_existing(full_title, existing) == full_title \in DOMAIN existing

(***************************************************************************)
(* update_csv_row (lines 79-100)                                           *)
(***************************************************************************)
\* parts with its last three entries set to the counts of data
set_stats(parts, data) ==
    SubSeq(parts, 1, Len(parts) - 3)
    \o <<str(data.view_count), str(data.like_count), str(data.comment_count)>>

row_matches(line, title) == startswith(line, <<"\"">> \o title \o <<"\"">>)

RECURSIVE update_lines(_, _, _)
update_lines(lines, title, data) ==
    IF lines = <<>> THEN <<>>
    ELSE (IF row_matches(Head(lines), title)
          THEN <<join(<<",">>, set_stats(split(Head(lines), ","), data))>>
          ELSE <<Head(lines)>>)
         \o update_lines(Tail(lines), title, data)

\* parts[-3] = ... raises IndexError on a matching line of fewer than 3 fields
update_raises(lines, title) ==
    \E i \in 1 .. Len(lines) :
        row_matches(lines[i], title) /\ Len(split(lines[i], ",")) < 3

\* [csv, err]: the table afterwards and the exception raised ("" when none).
\* lines[0] of an empty file raises IndexError.
update_csv_row(table, title, data) ==
    IF ~table.exists THEN [csv |-> table, err |-> ""]
    ELSE LET lines == splitlines(table.text)
         IN  IF lines = <<>> \/ update_raises(Tail(lines), title)
             THEN [csv |-> table, err |-> "IndexError"]
             ELSE IF \E i \in 1 .. Len(Tail(lines)) : row_matches(Tail(lines)[i], title)
             THEN [csv |-> [exists |-> TRUE,
                            text |-> join(<<"\n">>, <<Head(lines)>>
                                          \o update_lines(Tail(lines), title, data))],
                   err |-> ""]
             ELSE [csv |-> table, err |-> ""]

(***************************************************************************)
(* update_txt (lines 102-118)                                              *)
(***************************************************************************)
ViewsLabel == <<" ", " ", "V", "i", "e", "w", "s", ":">>
LikesLabel == <<" ", " ", "L", "i", "k", "e", "s", ":">>
CommentsLabel == <<" ", " ", "C", "o", "m", "m", "e", "n", "t", "s", ":">>

update_txt_line(line, data) ==
    IF startswith(line, ViewsLabel) THEN ViewsLabel \o <<" ">> \o str(data.view_count)
    ELSE IF startswith(line, LikesLabel) THEN LikesLabel \o <<" ">> \o str(data.like_count)
    ELSE IF startswith(line, CommentsLabel)
         THEN CommentsLabel \o <<" ">> \o str(data.comment_count)
    ELSE line

RECURSIVE update_txt_lines(_, _)
update_txt_lines(content, data) ==
    IF content = <<>> THEN <<>>
    ELSE <<update_txt_line(Head(content), data)>> \o update_txt_lines(Tail(content), data)

\* the files after update_txt(txt_path, data)
update_txt(files, txt_path, data) ==
    IF txt_path \notin DOMAIN files THEN files
    ELSE With(files, txt_path,
              TxtFile(join(<<"\n">>, update_txt_lines(splitlines(files[txt_path].text), data))))

(***************************************************************************)
(* Names: the downloader's output template (lines 128-135) and the names   *)
(* post_process_videos computes (lines 175-184, 203-204).                  *)
(***************************************************************************)
FILENAME_LENGTH == 10
FOLDER_LENGTH == 50

\* f"{upload_date}-{username} - "
name_stem(upload_date, username) == upload_date \o <<"-">> \o username \o <<" ", "-", " ">>

\* The downloader expands %(title).50s to the first 50 characters of the
\* title with every character a file name cannot hold replaced by a
\* look-alike (each entry stands for one full-width character).
LookAlike(c) ==
    CASE c = "\\" -> "U+29F9" [] c = "/" -> "U+29F8" [] c = ":" -> "U+FF1A"
      [] c = "*" -> "U+FF0A" [] c = "?" -> "U+FF1F" [] c = "\"" -> "U+FF02"
      [] c = "<" -> "U+FF1C" [] c = ">" -> "U+FF1E" [] c = "|" -> "U+FF5C"
      [] OTHER -> c

template_text(s) == [i \in 1 .. Len(s) |-> LookAlike(s[i])]

\* "%(upload_date>%Y-%m-%d)s-" + username + " - %(title).50s"
template_folder(v, username) ==
    name_stem(format_upload_date(v.upload_date), username)
    \o template_text(Prefix(v.title, FOLDER_LENGTH))

\* "%(upload_date>%Y-%m-%d)s-" + username + " - %(title).10s.%(ext)s"
template_file(v, username, ext) ==
    name_stem(format_upload_date(v.upload_date), username)
    \o template_text(Prefix(v.title, FILENAME_LENGTH)) \o <<".">> \o ext

ExtMp4 == <<"m", "p", "4">>
\* the extension the downloader gives the metadata it writes for --write-info-json
ExtInfoJson == <<"i", "n", "f", "o", ".", "j", "s", "o", "n">>

full_title_of(data) == strip(data.title)
sanitized_title_of(data) == sanitize(full_title_of(data))
description_of(data) == strip(data.description)

\* line 178
folder_name(data, username) ==
    name_stem(format_upload_date(data.upload_date), username)
    \o sanitize(Prefix(sanitized_title_of(data), FOLDER_LENGTH))

\* line 183
txt_filename(data, username) ==
    sanitize(name_stem(format_upload_date(data.upload_date), username)
             \o Prefix(sanitized_title_of(data), FILENAME_LENGTH) \o DotTxt)

\* lines 203-204
new_name(data, username, sfx) ==
    name_stem(format_upload_date(data.upload_date), username)
    \o sanitize(Prefix(sanitized_title_of(data), FILENAME_LENGTH)) \o sfx

(***************************************************************************)
(* post_process_videos (lines 152-230)                                     *)
(***************************************************************************)
NoTitle == <<"(", "N", "o", " ", "t", "i", "t", "l", "e", ")">>
NoDescription ==
    <<"(", "N", "o", " ", "d", "e", "s", "c", "r", "i", "p", "t", "i", "o",
      "n", ")">>

\* `x or default` on text
OrElse(x, default) == IF x # <<>> THEN x ELSE default

\* lines 208-225, joined by "\n" (line 227)
txt_contents(data) ==
    join(<<"\n">>,
      << <<"T", "i", "t", "l", "e", ":">>,
         OrElse(full_title_of(data), NoTitle),
         <<>>,
         <<"D", "e", "s", "c", "r", "i", "p", "t", "i", "o", "n", ":">>,
         OrElse(description_of(data), NoDescription),
         <<>>,
         <<"H", "a", "s", "h", "t", "a", "g", "s", ":">>,
         extract_hashtags(description_of(data)),
         <<>>,
         <<"S", "t", "a", "t", "s", ":">>,
         ViewsLabel \o <<" ">> \o str(data.view_count),
         LikesLabel \o <<" ">> \o str(data.like_count),
         CommentsLabel \o <<" ">> \o str(data.comment_count),
         <<>>,
         <<"V", "i", "d", "e", "o", " ", "U", "R", "L", ":">>,
         data.webpage_url >>)

MediaSuffixes == {DotMp4, DotJson}

\* lines 194-198: every .mp4/.json of the sidecar's folder goes to new_folder
\* under its own name, unless a file of that name is already there
move_into(files, parent, new_folder) ==
    LET moved == {p \in FilesIn(files, parent) :
                    /\ suffix(p[2]) \in MediaSuffixes
                    /\ <<new_folder, p[2]>> \notin DOMAIN files}
        dest(p) == <<new_folder, p[2]>>
    IN  [q \in (DOMAIN files \ moved) \cup {dest(p) : p \in moved} |->
            IF \E p \in moved : dest(p) = q
            THEN files[CHOOSE p \in moved : dest(p) = q]
            ELSE files[q]]

\* lines 201-205 for one suffix: every file of new_folder with that suffix is
\* renamed to the one target name; rename() replaces a file already there, so
\* of several sources the one the directory listing yields last is what the
\* target ends as.  The set of the contents the target may end with.
rename_results(files, new_folder, target, sfx) ==
    LET others == {p \in FilesIn(files, new_folder) : suffix(p[2]) = sfx} \ {target}
    IN  IF others = {} THEN {files}
        ELSE {[q \in (DOMAIN files \ others) \cup {target} |->
                 IF q = target THEN files[last] ELSE files[q]] : last \in others}

rename_media(files, new_folder, data, username) ==
    UNION {rename_results(f1, new_folder, <<new_folder, new_name(data, username, DotJson)>>, DotJson) :
             f1 \in rename_results(files, new_folder,
                                   <<new_folder, new_name(data, username, DotMp4)>>, DotMp4)}

\* the .mp4/.json paths whose content differs between two file systems
media_changed(before, after) ==
    {p \in DOMAIN before \cup DOMAIN after :
        /\ suffix(p[2]) \in MediaSuffixes
        /\ \/ p \notin DOMAIN before
           \/ p \notin DOMAIN after
           \/ before[p] # after[p]}

\* One pass of the loop body (lines 157-230) over info_file, from state
\* st = [fs, csv, err, log]: the set of states it may leave.  log records,
\* per sidecar handled, what the pass did.  txt_ok: the text sidecar can be
\* written.
process_item(st, info_file, existing, username, txt_ok) ==
    IF info_file \notin DOMAIN st.fs THEN {st}                       \* line 157
    ELSE IF ~st.fs[info_file].ok
    THEN {[st EXCEPT !.err = "JSONDecodeError"]}                     \* line 161
    ELSE
    LET data == st.fs[info_file].data
        new_folder == folder_name(data, username)
        txt_path == <<new_folder, txt_filename(data, username)>>
    IN  IF data.upload_date = <<>> THEN {st}                         \* line 173
        ELSE IF in_existing(full_title_of(data), existing)           \* line 187
        THEN IF txt_path \in DOMAIN st.fs /\ ~txt_ok
             THEN {[st EXCEPT !.err = "OSError"]}                    \* line 117
             ELSE LET fs1 == update_txt(st.fs, txt_path, data)
                      upd == update_csv_row(st.csv, full_title_of(data), data)
                  IN  {[fs |-> fs1, csv |-> upd.csv, err |-> upd.err,
                        log |-> st.log \cup
                          {[file |-> info_file, data |-> data, stats_only |-> TRUE,
                            media |-> media_changed(st.fs, fs1),
                            txt_before |-> IF txt_path \in DOMAIN st.fs
                                           THEN <<st.fs[txt_path].text>> ELSE <<>>,
                            txt_after |-> IF txt_path \in DOMAIN fs1
                                          THEN <<fs1[txt_path].text>> ELSE <<>>]}]}
        ELSE {[fs |-> IF txt_ok THEN With(f2, txt_path, TxtFile(txt_contents(data)))
                      ELSE f2,                                       \* lines 226-230
               csv |-> st.csv, err |-> "",
               log |-> st.log \cup
                 {[file |-> info_file, data |-> data, stats_only |-> FALSE,
                   media |-> media_changed(st.fs, f2),
                   txt_before |-> <<>>, txt_after |-> <<>>]}] :
                f2 \in rename_media(move_into(st.fs, info_file[1], new_folder),
                                    new_folder, data, username)}

\* the loop of line 156 over the sidecars still to visit, in any order; an
\* exception ends it
RECURSIVE process_all(_, _, _, _, _)
process_all(st, todo, existing, username, txt_ok) ==
    IF todo = {} \/ st.err # "" THEN {st}
    ELSE UNION {UNION {process_all(s2, todo \ {f}, existing, username, txt_ok) :
                         s2 \in process_item(st, f, existing, username, txt_ok)} :
                  f \in todo}

\* post_process_videos(export_dir, username): the states it may end in
post_process_videos(files, table, username, txt_ok) ==
    process_all([fs |-> files, csv |-> table, err |-> "", log |-> {}],
                csv_sources(files), load_existing_csv(table), username, txt_ok)

(***************************************************************************)
(* get_download_options (lines 32-55) and the checks of main (275-279)     *)
(***************************************************************************)
\* str.isdigit()
isdigit(s) == s # <<>> /\ \A i \in 1 .. Len(s) : s[i] \in Digits

DigitValue(c) == CHOOSE d \in 0 .. 9 : DigitOf(d) = c

\* int(s) for a text of digits
RECURSIVE num(_)
num(s) == IF s = <<>> THEN 0 ELSE 10 * num(SubSeq(s, 1, Len(s) - 1)) + DigitValue(s[Len(s)])

IsLeap(y) == (y % 4 = 0 /\ y % 100 # 0) \/ y % 400 = 0

DaysIn(y, m) ==
    IF m = 2 THEN (IF IsLeap(y) THEN 29 ELSE 28)
    ELSE IF m \in {4, 6, 9, 11} THEN 30 ELSE 31

\* datetime.strptime(s, "%Y-%m-%d") does not raise: four digits of year,
\* then one or two digits of month and of day (the leading zero is
\* optional when parsing), naming a day of the calendar
strptime_ok(s) ==
    LET parts == split(s, "-")
    IN  /\ Len(parts) = 3
        /\ Len(parts[1]) = 4 /\ isdigit(parts[1]) /\ num(parts[1]) >= 1
        /\ Len(parts[2]) \in {1, 2} /\ isdigit(parts[2]) /\ num(parts[2]) \in 1 .. 12
        /\ Len(parts[3]) \in {1, 2} /\ isdigit(parts[3])
        /\ num(parts[3]) \in 1 .. DaysIn(num(parts[1]), num(parts[2]))

\* s.replace("-", "")
RECURSIVE remove_dashes(_)
remove_dashes(s) ==
    IF s = <<>> THEN <<>>
    ELSE IF Head(s) = "-" THEN remove_dashes(Tail(s))
    ELSE <<Head(s)>> \o remove_dashes(Tail(s))

\* input(...).strip() on every answer (lines 38, 42, 47, 48, 275)
stripped(raw) == [k \in DOMAIN raw |-> strip(raw[k])]

\* what get_download_options makes of the stripped answers: sys.exit, or the
\* extra options for the downloader
get_download_options(typed) ==
    IF typed.choice = <<"1">> THEN [exit |-> FALSE, options |-> [kind |-> "all"]]
    ELSE IF typed.choice = <<"2">>
    THEN IF ~isdigit(typed.count) THEN [exit |-> TRUE, options |-> [kind |-> "none"]]
         ELSE [exit |-> FALSE, options |-> [kind |-> "playlist-end", count |-> typed.count]]
    ELSE IF typed.choice = <<"3">>
    THEN IF ~(strptime_ok(typed.start) /\ strptime_ok(typed.end))
         THEN [exit |-> TRUE, options |-> [kind |-> "none"]]
         ELSE [exit |-> FALSE,
               options |-> [kind |-> "dates", dateafter |-> remove_dashes(typed.start),
                            datebefore |-> remove_dashes(typed.end)]]
    ELSE [exit |-> TRUE, options |-> [kind |-> "none"]]

(***************************************************************************)
(* download_tiktok_profile (lines 122-148): the external downloader        *)
(***************************************************************************)
\* The downloader reads a --dateafter/--datebefore value with
\* strptime(value, "%Y%m%d"): four digits of year, then a month and a day
\* of one or two digits each, matched greedily from the left.
\* The length of the day at the head of t (0: none).
day_len(t) ==
    IF Len(t) >= 2 /\ t[1] = "3" /\ t[2] \in {"0", "1"} THEN 2
    ELSE IF Len(t) >= 2 /\ t[1] \in {"1", "2"} /\ t[2] \in Digits THEN 2
    ELSE IF Len(t) >= 2 /\ t[1] = "0" /\ t[2] \in Digits \ {"0"} THEN 2
    ELSE IF Len(t) >= 1 /\ t[1] \in Digits \ {"0"} THEN 1
    ELSE 0

\* The length of the month at the head of t that a day can follow (0: none).
month_len(t) ==
    IF /\ Len(t) >= 2
       /\ \/ t[1] = "1" /\ t[2] \in {"0", "1", "2"}
          \/ t[1] = "0" /\ t[2] \in Digits \ {"0"}
       /\ day_len(SubSeq(t, 3, Len(t))) > 0
    THEN 2
    ELSE IF Len(t) >= 1 /\ t[1] \in Digits \ {"0"} /\ day_len(SubSeq(t, 2, Len(t))) > 0
    THEN 1
    ELSE 0

\* [ok, value]: whether the downloader can read s as a date, and the date
\* as the number yyyymmdd
option_date(s) ==
    IF ~(Len(s) >= 4 /\ isdigit(SubSeq(s, 1, 4))) THEN [ok |-> FALSE, value |-> 0]
    ELSE LET rest == SubSeq(s, 5, Len(s))
             ml == month_len(rest)
             dl_ == day_len(SubSeq(rest, ml + 1, Len(rest)))
             y == num(SubSeq(s, 1, 4))
             m == num(SubSeq(rest, 1, ml))
             d == num(SubSeq(rest, ml + 1, ml + dl_))
         IN  IF ml = 0 \/ ml + dl_ # Len(rest) \/ y < 1 \/ d > DaysIn(y, m)
             THEN [ok |-> FALSE, value |-> 0]
             ELSE [ok |-> TRUE, value |-> 10000 * y + 100 * m + d]

\* the downloader rejects its options (it exits with an error status)
options_rejected(options) ==
    options.kind = "dates"
    /\ ~(option_date(options.dateafter).ok /\ option_date(options.datebefore).ok)

\* The feed positions the downloader takes for the options.
\* --playlist-end n: the n newest; --dateafter/--datebefore: the videos
\* uploaded in the range (both ends included).
selection(videos, options) ==
    IF options.kind = "all" THEN DOMAIN videos
    ELSE IF options.kind = "playlist-end"
    THEN {i \in DOMAIN videos : i <= num(options.count)}
    ELSE {i \in DOMAIN videos :
            /\ option_date(options.dateafter).value <= num(videos[i].upload_date)
            /\ num(videos[i].upload_date) <= option_date(options.datebefore).value}

\* the counts the platform reports for every video during run r
Stats(r) == <<3 * r - 2, 3 * r - 1, 3 * r>>

info_of(v, r) == Meta(v.id, v.title, v.description, v.upload_date, Stats(r), v.webpage_url)

\* the downloader handles one video: it writes the metadata sidecar
\* (--write-info-json), and the video unless a file of its name is there
\* already
download_one(files, v, r, username) ==
    LET dir == template_folder(v, username)
        video == <<dir, template_file(v, username, ExtMp4)>>
        info == <<dir, template_file(v, username, ExtInfoJson)>>
        f1 == With(files, info, JsonFile(TRUE, info_of(v, r)))
    IN  IF video \in DOMAIN f1 THEN f1 ELSE With(f1, video, VideoFile(v.id))

RECURSIVE download_all(_, _, _, _, _)
download_all(files, videos, todo, r, username) ==
    IF todo = {} THEN files
    ELSE LET i == CHOOSE i \in todo : \A j \in todo : i <= j
         IN  download_all(download_one(files, videos[i], r, username),
                          videos, todo \ {i}, r, username)

\* the downloader is interrupted while it writes the sidecar of v
truncated_sidecar(files, v, r, username) ==
    With(files, <<template_folder(v, username), template_file(v, username, ExtInfoJson)>>,
         JsonFile(FALSE, info_of(v, r)))

(***************************************************************************)
(* The videos a profile may hold, and what a user may type.                *)
(***************************************************************************)
Username == <<"u">>
Date1 == <<"2", "0", "2", "4", "0", "1", "0", "1">>
Date2 == <<"2", "0", "2", "4", "0", "1", "0", "2">>

Catalogue ==
    << [id |-> 1, title |-> <<"a", "b">>,
        description |-> <<"x", "\n", " ", " ", "V", "i", "e", "w", "s", ":", " ", "9">>,
        upload_date |-> Date2, webpage_url |-> <<"u", "1">>],
       [id |-> 2, title |-> <<"a", ":", "b">>,
        description |-> <<"#", "a">>,
        upload_date |-> Date2, webpage_url |-> <<"u", "2">>],
       [id |-> 3, title |-> <<"c">>,
        description |-> <<>>,
        upload_date |-> Date1, webpage_url |-> <<"u", "3">>] >>

\* the feeds: up to MaxFeed different videos of the catalogue, newest first
Feeds ==
    UNION {{f \in [1 .. n -> DOMAIN Catalogue] : \A i, j \in 1 .. n : f[i] = f[j] => i = j} :
             n \in 1 .. MaxFeed}

DateInputs ==
    { <<"2", "0", "2", "4", "-", "0", "1", "-", "0", "1">>,
      <<"2", "0", "2", "4", "-", "0", "1", "-", "0", "2">>,
      <<"2", "0", "2", "4", "-", "1", "-", "1", "2">>,
      <<"2", "0", "2", "4", "-", "0", "2", "-", "3", "0">> }

NoAnswers == [username |-> <<>>, choice |-> <<>>, count |-> <<>>, start |-> <<>>, end |-> <<>>]

\* the answers a user may type
Answers ==
    {[NoAnswers EXCEPT !.username = u] : u \in {<<>>, <<" ">>}}
    \cup {[NoAnswers EXCEPT !.username = u, !.choice = c] :
            u \in {Username, Username \o <<" ">>}, c \in {<<"1">>, <<" ", "1">>, <<"9">>}}
    \cup {[NoAnswers EXCEPT !.username = Username, !.choice = <<"2">>, !.count = n] :
            n \in {<<"1">>, <<"x">>}}
    \cup {[NoAnswers EXCEPT !.username = Username, !.choice = <<"3">>, !.start = a, !.end = b] :
            a \in DateInputs, b \in DateInputs}

\* datetime.now().strftime("%Y-%m-%d") during run r
download_date(r) == <<"2", "0", "2", "4", "-", "0", "2", "-", "0">> \o str(r)

NoTable == [exists |-> FALSE, text |-> <<>>]
NoFiles == <<>>

(***************************************************************************)
(* main (lines 270-284), one action per step.                              *)
(***************************************************************************)
Init ==
    /\ pc = "start"
    /\ arg = <<>>
    /\ ret = <<>>
    /\ fs = NoFiles
    /\ csv = NoTable
    /\ feed \in {[i \in DOMAIN f |-> Catalogue[f[i]]] : f \in Feeds}
    /\ run = 1
    /\ sel = NoAnswers
    /\ err = ""
    /\ snap = [fs |-> NoFiles, csv |-> NoTable, written |-> <<>>]
    /\ dl = NoFiles
    /\ log = {}
    /\ written = <<>>

\* lines 271-273: the downloader is probed and, when missing, installed
CheckTool ==
    /\ pc = "start"
    /\ \E installed \in BOOLEAN, response \in {"y", "n"}, pip_ok \in BOOLEAN :
         IF installed \/ (response = "y" /\ pip_ok)
         THEN pc' = "input" /\ err' = ""
         ELSE pc' = "exit" /\ err' = (IF response # "y" THEN "SystemExit" ELSE "pip failed")
    /\ UNCHANGED <<arg, ret, fs, csv, feed, run, sel, snap, dl, log, written>>

\* lines 275-279: the username and the download option are read
GetInputs ==
    /\ pc = "input"
    /\ \E raw \in Answers :
         LET typed == stripped(raw)
         IN  /\ sel' = typed
             /\ IF typed.username = <<>> \/ get_download_options(typed).exit
                THEN pc' = "exit" /\ err' = "SystemExit"
                ELSE pc' = "download" /\ err' = ""
    /\ UNCHANGED <<arg, ret, fs, csv, feed, run, snap, dl, log, written>>

\* line 280, the downloader exits with status 0
DownloadOk ==
    /\ pc = "download"
    /\ ~options_rejected(get_download_options(sel).options)
    /\ fs' = download_all(fs, feed, selection(feed, get_download_options(sel).options),
                          run, sel.username)
    /\ dl' = fs'
    /\ pc' = "post"
    /\ UNCHANGED <<arg, ret, csv, feed, run, sel, err, snap, log, written>>

\* line 280, the downloader exits with another status (check=True raises),
\* having written nothing or part of one sidecar
DownloadFails ==
    /\ pc = "download"
    /\ \/ fs' = fs
       \/ /\ ~options_rejected(get_download_options(sel).options)
          /\ \E i \in selection(feed, get_download_options(sel).options) :
                fs' = truncated_sidecar(fs, feed[i], run, sel.username)
    /\ dl' = fs'
    /\ pc' = "exit"
    /\ err' = "downloader failed"
    /\ UNCHANGED <<arg, ret, csv, feed, run, sel, snap, log, written>>

\* line 281
PostProcess ==
    /\ pc = "post"
    /\ \E txt_ok \in BOOLEAN :
         \E out \in post_process_videos(fs, csv, sel.username, txt_ok) :
            /\ fs' = out.fs
            /\ csv' = out.csv
            /\ err' = out.err
            /\ log' = out.log
            /\ pc' = IF out.err = "" THEN "csv" ELSE "exit"
    /\ UNCHANGED <<arg, ret, feed, run, sel, snap, dl, written>>

\* line 282
GenerateCsv ==
    /\ pc = "csv"
    /\ \E order \in Orders(csv_sources(fs)) :
         /\ csv' = generate_csv(fs, order, download_date(run))
         /\ written' = csv_row_data(fs, order)
    /\ pc' = "done"
    /\ UNCHANGED <<arg, ret, fs, feed, run, sel, err, snap, dl, log>>

\* the program is started again on the same export directory
NextRun ==
    /\ pc \in {"done", "exit"}
    /\ run < MaxRuns
    /\ run' = run + 1
    /\ pc' = "start"
    /\ sel' = NoAnswers
    /\ err' = ""
    /\ log' = {}
    /\ snap' = [fs |-> fs, csv |-> csv, written |-> written]
    /\ dl' = fs
    /\ UNCHANGED <<arg, ret, fs, csv, feed, written>>

Next ==
    \/ CheckTool
    \/ GetInputs
    \/ DownloadOk
    \/ DownloadFails
    \/ PostProcess
    \/ GenerateCsv
    \/ NextRun

Spec == Init /\ [][Next]_vars

(***************************************************************************)
(* The string helpers and the CSV store on their own: each specification   *)
(* draws the arguments from bounded sets of texts and applies the          *)
(* function.                                                               *)
(***************************************************************************)
\* the texts of at most n characters of alphabet A
Texts(A, n) == UNION {[1 .. k -> A] : k \in 0 .. n}

\* the main program's variables, at rest
Idle ==
    /\ feed = <<>>
    /\ run = 1
    /\ sel = NoAnswers
    /\ err = ""
    /\ snap = [fs |-> NoFiles, csv |-> NoTable, written |-> <<>>]
    /\ dl = NoFiles
    /\ log = {}
    /\ written = <<>>

SanitizeAlphabet == InvalidChars \cup {" ", "\n", "a", "b"}

InitSanitize ==
    /\ pc = "call"
    /\ arg \in Texts(SanitizeAlphabet, MaxLen)
    /\ ret = <<>>
    /\ fs = NoFiles
    /\ csv = NoTable
    /\ Idle

CallSanitize ==
    /\ pc = "call"
    /\ ret' = sanitize(arg)
    /\ pc' = "returned"
    /\ UNCHANGED <<arg, fs, csv, feed, run, sel, err, snap, dl, log, written>>

SpecSanitize == InitSanitize /\ [][CallSanitize]_vars

HashtagAlphabet == {"#", "a", "_", " ", "-"}

InitHashtags ==
    /\ pc = "call"
    /\ arg \in Texts(HashtagAlphabet, MaxDescLen)
    /\ ret = <<>>
    /\ fs = NoFiles
    /\ csv = NoTable
    /\ Idle

CallExtractHashtags ==
    /\ pc = "call"
    /\ ret' = extract_hashtags(arg)
    /\ pc' = "returned"
    /\ UNCHANGED <<arg, fs, csv, feed, run, sel, err, snap, dl, log, written>>

SpecHashtags == InitHashtags /\ [][CallExtractHashtags]_vars

CsvAlphabet == {"a", ",", "\"", "\n"}
CsvDescriptions == {<<>>, <<"b">>, <<"b", "\n", "c">>}

\* the folder and the sidecar of item i
ItemPath(i) == << <<"d", DigitOf(i)>>, <<"m">> \o DotJson >>

ItemSets ==
    UNION {[1 .. n -> Texts(CsvAlphabet, MaxTitleLen) \X CsvDescriptions] : n \in 1 .. MaxItems}

ItemFiles(items) ==
    [p \in {ItemPath(i) : i \in DOMAIN items} |->
        LET i == CHOOSE i \in DOMAIN items : ItemPath(i) = p
        IN  JsonFile(TRUE, Meta(i, items[i][1], items[i][2], Date1, Stats(1),
                                <<"u", DigitOf(i)>>))]

InitCsv ==
    /\ pc = "csv"
    /\ arg = <<>>
    /\ ret = <<>>
    /\ fs \in {ItemFiles(items) : items \in ItemSets}
    /\ csv = NoTable
    /\ feed = <<>>
    /\ run = 1
    /\ sel = NoAnswers
    /\ err = ""
    /\ snap = [fs |-> NoFiles, csv |-> NoTable, written |-> <<>>]
    /\ dl = NoFiles
    /\ log = {}
    /\ written = <<>>

\* load_existing_csv(csv_path) on the table just written
LoadCsv ==
    /\ pc = "done"
    /\ ret' = load_existing_csv(csv)
    /\ pc' = "loaded"
    /\ UNCHANGED <<arg, fs, csv, feed, run, sel, err, snap, dl, log, written>>

\* update_csv_row(csv_path, title, data) on the table just written, for an
\* item's title and the counts of a later run
UpdateCsvRow ==
    /\ pc = "done"
    /\ \E i \in 1 .. Len(written) :
         LET data == [written[i] EXCEPT !.view_count = Stats(2)[1],
                                        !.like_count = Stats(2)[2],
                                        !.comment_count = Stats(2)[3]]
             upd == update_csv_row(csv, written[i].title, data)
         IN  /\ arg' = [title |-> written[i].title, data |-> data]
             /\ csv' = upd.csv
             /\ err' = upd.err
    /\ pc' = "updated"
    /\ UNCHANGED <<ret, fs, feed, run, sel, snap, dl, log, written>>

NextCsv == GenerateCsv \/ LoadCsv \/ UpdateCsvRow

SpecCsv == InitCsv /\ [][NextCsv]_vars

(***************************************************************************)
(* The claims.                                                             *)
(***************************************************************************)
\* the nine characters the specification of sanitize lists
NineCharacters == {"\\", "/", ":", "*", "?", "\"", "<", ">", "|"}

\* the positions of text that hold none of the nine characters and are not
\* whitespace
SolidPositions(text) ==
    {i \in 1 .. Len(text) : text[i] \notin NineCharacters /\ text[i] \notin Whitespace}

\* text between positions lo and hi, the nine characters left out
KeptBetween(text, lo, hi) ==
    SelectSeq(SubSeq(text, lo, hi), LAMBDA c : c \notin NineCharacters)

\* C1: sanitize returns the input with every one of the nine characters
\* \ / : * ? " < > | removed, the other characters kept in their order, and
\* leading and trailing whitespace trimmed; the result holds none of the nine.
SanitizeRemovesAndTrims ==
    pc = "returned" =>
        /\ \A i \in 1 .. Len(ret) : ret[i] \notin NineCharacters
        /\ IF SolidPositions(arg) = {}
           THEN ret = <<>>
           ELSE ret = KeptBetween(arg,
                        CHOOSE i \in SolidPositions(arg) : \A j \in SolidPositions(arg) : i <= j,
                        CHOOSE i \in SolidPositions(arg) : \A j \in SolidPositions(arg) : j <= i)

\* C1 witness: a text with leading whitespace and one of the nine characters
\* has been sanitized
SanitizeWitness ==
    /\ pc = "returned"
    /\ arg = <<" ", "a", "|">>
    /\ ret = <<"a">>

\* the positions of s where a hashtag token starts: a "#" followed by a
\* word character
TokenStarts(s) == {i \in 1 .. Len(s) : s[i] = "#" /\ i < Len(s) /\ s[i + 1] \in WordChars}

\* the maximal token starting at i
TokenAt(s, i) ==
    SubSeq(s, i, CHOOSE e \in i + 1 .. Len(s) :
                    /\ \A k \in i + 1 .. e : s[k] \in WordChars
                    /\ (e = Len(s) \/ s[e + 1] \notin WordChars))

\* the tokens of s in their order of occurrence
Tokens(s) == [k \in 1 .. Cardinality(TokenStarts(s)) |-> TokenAt(s, Kth(TokenStarts(s), k))]

\* C2: extract_hashtags returns exactly the maximal tokens "#" + word
\* characters of the description, in order, joined by single spaces; a
\* description with no such token yields the placeholder "(No hashtags)".
HashtagsAreTheTokensOrPlaceholder ==
    pc = "returned" =>
        ret = IF TokenStarts(arg) = {} THEN NoHashtags ELSE join(<<" ">>, Tokens(arg))

\* the part of C2 the code does keep: a description that holds a token
\* yields exactly its tokens
HashtagsAreTheTokens ==
    (pc = "returned" /\ TokenStarts(arg) # {}) => ret = join(<<" ">>, Tokens(arg))

\* C3: after generate_csv writes the table, load_existing_csv returns one
\* entry per item, keyed by the item's title, whose row holds the eight
\* column values written for the item.
CsvRoundTrips ==
    pc = "loaded" =>
        /\ Cardinality(DOMAIN ret) = Cardinality({written[i].title : i \in 1 .. Len(written)})
        /\ \A i \in 1 .. Len(written) :
             /\ written[i].title \in DOMAIN ret
             /\ \E j \in 1 .. Len(written) :
                  /\ written[j].title = written[i].title
                  /\ ret[written[i].title] = csv_fields(written[j], download_date(run))

\* the table with the counts of the rows titled title set to those of data
TableWithStats(rows, title, data, date) ==
    join(<<"\n">>, <<CsvHeader>> \o
        [i \in 1 .. Len(rows) |->
            csv_row(IF rows[i].title = title
                    THEN [rows[i] EXCEPT !.view_count = data.view_count,
                                         !.like_count = data.like_count,
                                         !.comment_count = data.comment_count]
                    ELSE rows[i], date)])

\* C4: update_csv_row(csv, title, data) changes the Views/Likes/Comments of
\* exactly the rows whose title equals title and leaves the header and every
\* other row unchanged; an item counts as already present exactly when a row
\* with an equal title exists.
CsvKeyedByExactTitle ==
    /\ pc = "updated" =>
         /\ err = ""
         /\ csv.text = TableWithStats(written, arg.title, arg.data, download_date(run))
    /\ pc = "loaded" =>
         \A t \in Texts(CsvAlphabet, MaxTitleLen) :
            in_existing(t, ret) <=> \E i \in 1 .. Len(written) : written[i].title = t

\* the ids of the videos with a row in the table generate_csv wrote
RowIds(rows) == {rows[i].id : i \in 1 .. Len(rows)}

\* C5: every video that has a row in tiktok_export.csv at the end of one run
\* still has a row at the end of every later run.
SpreadsheetIsCumulative ==
    pc = "done" => RowIds(snap.written) \subseteq RowIds(written)

\* the feed holds two videos of one upload date whose folder names coincide
\* (the case of C10)
FolderNamesCollide ==
    \E i, j \in DOMAIN feed :
        /\ i # j
        /\ folder_name(feed[i], Username) = folder_name(feed[j], Username)

\* C5, away from the collision of C10: without two such videos in the feed
\* no row is ever dropped.
CumulativeWithoutCollision ==
    FolderNamesCollide \/ SpreadsheetIsCumulative

\* the downloader has been invoked for the download in this run
DownloaderInvoked ==
    \/ pc \in {"post", "csv", "done"}
    \/ pc = "exit" /\ err \in {"downloader failed", "JSONDecodeError", "OSError", "IndexError"}

\* a date written YYYY-MM-DD that names a day of the calendar
IsYearMonthDay(s) ==
    /\ Len(s) = 10
    /\ s[5] = "-" /\ s[8] = "-"
    /\ \A i \in {1, 2, 3, 4, 6, 7, 9, 10} : s[i] \in Digits
    /\ num(SubSeq(s, 1, 4)) >= 1
    /\ num(SubSeq(s, 6, 7)) \in 1 .. 12
    /\ num(SubSeq(s, 9, 10)) \in 1 .. DaysIn(num(SubSeq(s, 1, 4)), num(SubSeq(s, 6, 7)))

ValidAnswers(typed) ==
    /\ typed.username # <<>>
    /\ \/ typed.choice = <<"1">>
       \/ typed.choice = <<"2">> /\ typed.count # <<>>
                                 /\ \A i \in 1 .. Len(typed.count) : typed.count[i] \in Digits
       \/ typed.choice = <<"3">> /\ IsYearMonthDay(typed.start) /\ IsYearMonthDay(typed.end)

\* the text sidecars among files
TxtFiles(files) == {<<p, files[p]>> : p \in {q \in DOMAIN files : endswith(q[2], DotTxt)}}

\* C6: when the downloader exits with a non-zero status the run stops there
\* (no post-processing, no CSV generation: nothing moved or renamed, no text
\* sidecar written, the table as it was), and the downloader is invoked only
\* after a non-empty username and a valid download option were entered.
DownloaderGuarded ==
    /\ err = "downloader failed" =>
         /\ pc = "exit"
         /\ log = {}
         /\ fs = dl
         /\ TxtFiles(fs) = TxtFiles(snap.fs)
         /\ csv = snap.csv
         /\ written = snap.written
    /\ DownloaderInvoked => ValidAnswers(sel)

\* the part of C6 about the exit status alone
FailedDownloadStopsRun ==
    err = "downloader failed" =>
        pc = "exit" /\ log = {} /\ fs = dl /\ csv = snap.csv /\ written = snap.written

\* post_process_videos has returned or raised in this run
PostProcessEnded ==
    \/ pc \in {"csv", "done"}
    \/ pc = "exit" /\ err \in {"JSONDecodeError", "OSError", "IndexError"}

\* C7: a sidecar that cannot be parsed, or a text sidecar that cannot be
\* written, never aborts the run: the item is skipped, the remaining items
\* are post-processed and the CSV is written.
ItemFailuresDoNotAbort ==
    PostProcessEnded => err \notin {"JSONDecodeError", "OSError"}

\* text with the three count lines of its Stats section (the fourth to
\* sixth line from the end) set to the counts of data
WithNewStats(text, data) ==
    LET lines == split(text, "\n")
        n == Len(lines)
    IN  join(<<"\n">>,
          [i \in 1 .. n |->
             IF i = n - 5 THEN ViewsLabel \o <<" ">> \o str(data.view_count)
             ELSE IF i = n - 4 THEN LikesLabel \o <<" ">> \o str(data.like_count)
             ELSE IF i = n - 3 THEN CommentsLabel \o <<" ">> \o str(data.comment_count)
             ELSE lines[i]])

\* C8: for an item whose title is already a key of the loaded CSV,
\* post_process_videos moves, renames and overwrites no video or metadata
\* file, and in the item's text sidecar changes only the Views, Likes and
\* Comments lines of the Stats section.
StatsOnlyUpdate ==
    \A e \in log :
        e.stats_only =>
            /\ e.media = {}
            /\ e.txt_before # <<>> =>
                 e.txt_after = <<WithNewStats(e.txt_before[1], e.data)>>

\* the ids of the videos that have a parsable metadata sidecar among files
SidecarIds(files) ==
    {files[p].data.id : p \in {q \in csv_sources(files) : files[q].ok}}

\* C9: after any sequence of complete runs the table holds exactly one data
\* row per distinct downloaded video.
OneRowPerVideo ==
    pc = "done" =>
        \A v \in SidecarIds(fs) :
            Cardinality({i \in 1 .. Len(written) : written[i].id = v}) = 1

\* the ids of the videos whose video file is among files
VideoIds(files) == {files[p].id : p \in {q \in DOMAIN files : files[q].kind = "video"}}

\* C10: after post_process_videos every downloaded item's video file and
\* metadata sidecar still exist: no move or rename overwrites another
\* item's file.
NoDownloadedFileLost ==
    pc = "csv" =>
        /\ VideoIds(dl) \subseteq VideoIds(fs)
        /\ SidecarIds(dl) \subseteq SidecarIds(fs)
====
